---- MODULE Spec2Model ----
(***************************************************************************)
(* Construction-time compliance pipeline of tc::TcExecutor                 *)
(* (src/core/tc_executor.cc): parsing one definition, translating it,      *)
(* checking the caller's tensors against the declared parameters, storing  *)
(* them and inferring the outputs; and the tensor-against-tensor check     *)
(* checkSizesAndStridesAreCompliant.                                       *)
(*                                                                         *)
(* Positions, dimension indices and token locations are 0-based, as in the *)
(* source; TLA+ sequences are 1-based, so element i of a vector v is       *)
(* v[i + 1].                                                               *)
(***************************************************************************)
EXTENDS Integers, Sequences, FiniteSets, TLC

\* ------------------------------------------------------------------ bounds
\* Longest list of tensors / declared parameters.
MaxTensors == 2
\* Largest number of dimensions of a tensor.
MaxRank == 2
\* Most items that follow the first one in a text.
MaxExtra == 1

\* ------------------------------------------------------------ input domains
SeqsUpTo(S, n) == UNION {[1..k -> S] : k \in 0..n}

\* DLDataType {code, bits}: kDLInt = 0, kDLUInt = 1, kDLFloat = 2.
Int32 == [code |-> 0, bits |-> 32]
Float32 == [code |-> 2, bits |-> 32]
DLDataTypes == {Int32, Float32}

\* The shape [4, 8, 12, ...] of rank r, and the shapes that differ from it by
\* one in any set of dimensions ([4, 9], [5, 8], ...).
BaseShape(r) == [k \in 1..r |-> 4 * k]
Shapes(r) == {s \in [1..r -> 4..(4 * r + 1)] :
                \A k \in 1..r : s[k] \in {4 * k, 4 * k + 1}}

DLTensor(r, s, t) == [ndim |-> r, shape |-> s, dtype |-> t]

\* Every tensor descriptor of rank <= MaxRank.
DLTensors ==
  UNION {{DLTensor(r, s, t) : s \in Shapes(r), t \in DLDataTypes} : r \in 0..MaxRank}
\* The descriptors a caller hands to the constructor.
BaseTensors == {DLTensor(r, BaseShape(r), t) : r \in 0..MaxRank, t \in DLDataTypes}
\* The descriptors a previously validated list holds.
ExpectedTensors ==
  {DLTensor(MaxRank, BaseShape(MaxRank), Float32),
   DLTensor(MaxRank - 1, BaseShape(MaxRank - 1), Int32)}

\* Declared parameters of a definition: element type (lang::TypeInfo) and rank.
DeclParams == {[type |-> Float32, rank |-> MaxRank],
               [type |-> Int32, rank |-> MaxRank - 1]}

\* A function definition (FunctionDefinition of the data model): its name, its
\* declared parameters, and whether the translator can lower it.
Defs == {[name |-> "f", params |-> ps, lowerable |-> b] :
           ps \in SeqsUpTo(DeclParams, MaxTensors), b \in BOOLEAN}
TrailingDef == [name |-> "g", params |-> <<>>, lowerable |-> TRUE]
Junk == [name |-> "", params |-> <<>>, lowerable |-> FALSE]

\* A text is a sequence of items, each a well-formed definition or junk,
\* followed by end of input.
Texts ==
  {<<>>} \cup
  {<<x>> \o tail : x \in Defs \cup {Junk},
                   tail \in SeqsUpTo({TrailingDef, Junk}, MaxExtra)}

NoTree == [name |-> "", params |-> <<>>, lowerable |-> FALSE, none |-> TRUE]
NoComponents == [inputs |-> <<>>, def |-> NoTree]
NoError == [kind |-> "none"]
NoExecutor == [none |-> TRUE]
\* A default-constructed ExecutionInfo.
EmptyExecInfo == [kernelName |-> "", inputsInfo |-> <<>>, outputsInfo |-> <<>>]

VARIABLES
  pc,                \* position of the call in progress
  text,              \* argument tcDefinition of the constructor from text
  inputsInfo,        \* argument inputsInfo of the constructor
  tcTree_,           \* member tcTree_
  halideComponents_, \* member halideComponents_
  execInfo_,         \* member execInfo_
  executor,          \* the object the caller holds once the constructor returned
  stages,            \* the statements of the constructor run so far, in order
  indexed,           \* the positions checkInputsCompliant indexed
  err,               \* the lang::ErrorReport thrown, if any
  actual,            \* argument dlTensors of checkSizesAndStridesAreCompliant
  expected,          \* argument tensorInfos of checkSizesAndStridesAreCompliant
  reads              \* the <<tensor, index>> at which shapeE was read

vars == <<pc, text, inputsInfo, tcTree_, halideComponents_, execInfo_, executor,
          stages, indexed, err, actual, expected, reads>>

ctorVars == <<text, inputsInfo, tcTree_, halideComponents_, execInfo_, executor,
              stages, indexed>>
checkVars == <<actual, expected, reads>>

\* ----------------------------------------------------------- error reports
SyntaxError(loc) == [kind |-> "SyntaxError", loc |-> loc]
TranslationError == [kind |-> "TranslationError"]
InferenceError == [kind |-> "InferenceError"]
ArityError(e, a) == [kind |-> "ArityError", expected |-> e, actual |-> a]
TypeMismatchError(p, e, a) ==
  [kind |-> "TypeMismatchError", pos |-> p, expectedType |-> e, actualType |-> a]
RankMismatchError(p, e, a) ==
  [kind |-> "RankMismatchError", pos |-> p, expected |-> e, actual |-> a]
ShapeMismatchError(p, d, e, a) ==
  [kind |-> "ShapeMismatchError", pos |-> p, dim |-> d, expected |-> e, actual |-> a]

\* ------------------------------------------------------------ collaborators
\* lang::Parser::parseFunction at item `pos` of the text: one definition is
\* consumed, or the parser reports the item it cannot parse.
parseFunction(def, pos) ==
  IF pos >= Len(def) \/ def[pos + 1] = Junk
    THEN [ok |-> FALSE, loc |-> pos, tree |-> NoTree, pos |-> pos]
    ELSE [ok |-> TRUE, loc |-> pos, tree |-> def[pos + 1], pos |-> pos + 1]

\* parser.L.cur().kind after the lexer consumed `pos` items.
curKind(def, pos) == IF pos >= Len(def) THEN "TK_EOF" ELSE "TK_OTHER"

\* lang::TypeInfo(Code(code), bits).toScalarToken(): the canonical token.
toScalarToken(code, bits) ==
  [class |-> CASE code = 0 -> "int" [] code = 1 -> "uint" [] OTHER -> "float",
   bits |-> bits]

\* lang::kindToString of a scalar token.
kindToString(tok) ==
  CASE tok.class = "float" /\ tok.bits = 32 -> "float"
    [] tok.class = "float" /\ tok.bits = 64 -> "double"
    [] tok.class = "int" /\ tok.bits = 32 -> "int32"
    [] tok.class = "uint" /\ tok.bits = 32 -> "uint32"
    [] OTHER -> "unknown"

\* tc2halide::translate: the declared inputs (Halide::ImageParam: type() and
\* dimensions()) in the order of the parameters, and the definition.
translate(tree) ==
  [inputs |-> [k \in 1..Len(tree.params) |->
                 [type |-> [code |-> tree.params[k].type.code,
                            bits |-> tree.params[k].type.bits],
                  dimensions |-> tree.params[k].rank]],
   def |-> tree]

\* dlutils::makeDLTensorVector: an owned copy of every descriptor.
makeDLTensorVector(ptrs) ==
  [k \in 1..Len(ptrs) |->
     [ndim |-> ptrs[k].ndim,
      shape |-> [d \in 1..ptrs[k].ndim |-> ptrs[k].shape[d]],
      dtype |-> [code |-> ptrs[k].dtype.code, bits |-> ptrs[k].dtype.bits]]]

\* The output descriptor lists toPencil may derive.
OutputLists == {<<t>> : t \in ExpectedTensors}

\* ------------------------------------------------------ tc_executor.cc:39-42
toTypeToken(dtype) == toScalarToken(dtype.code, dtype.bits)

\* Element i (0-based) of a vector; `oob` is what a read past its end yields.
At(v, i, oob) == IF i < Len(v) THEN v[i + 1] ELSE oob

\* Variant of ShapeLoop whose report names the actual size as the expected one.
RECURSIVE ShapeLoopSwapped(_, _, _, _, _, _)
ShapeLoopSwapped(shapeA, shapeE, dbg, i, rd, oob) ==
  IF i >= Len(shapeA)
    THEN [err |-> NoError, reads |-> rd]
    ELSE IF shapeA[i + 1] # At(shapeE, i, oob)
      THEN [err |-> ShapeMismatchError(dbg, i, shapeA[i + 1], At(shapeE, i, oob)),
            reads |-> rd \cup {<<dbg, i>>}]
      ELSE ShapeLoopSwapped(shapeA, shapeE, dbg, i + 1, rd \cup {<<dbg, i>>}, oob)

\* ------------------------------------------------------ tc_executor.cc:64-70
RECURSIVE ShapeLoop(_, _, _, _, _, _)
ShapeLoop(shapeA, shapeE, dbg, i, rd, oob) ==
  IF i >= Len(shapeA)
    THEN [err |-> NoError, reads |-> rd]
    ELSE IF shapeA[i + 1] # At(shapeE, i, oob)
      THEN [err |-> ShapeMismatchError(dbg, i, At(shapeE, i, oob), shapeA[i + 1]),
            reads |-> rd \cup {<<dbg, i>>}]
      ELSE ShapeLoop(shapeA, shapeE, dbg, i + 1, rd \cup {<<dbg, i>>}, oob)

\* Variant of checkTensor that compares the dtypes before the ranks.
checkTensorTypeFirst(a, e, dbg, oob) ==
  IF toTypeToken(a.dtype) # toTypeToken(e.dtype)
    THEN [err |-> TypeMismatchError(dbg, kindToString(toTypeToken(e.dtype)),
                                    kindToString(toTypeToken(a.dtype))),
          reads |-> {}]
    ELSE IF a.ndim # e.ndim
      THEN [err |-> RankMismatchError(dbg, e.ndim, a.ndim), reads |-> {}]
      ELSE ShapeLoop([k \in 1..a.ndim |-> a.shape[k]],
                     [k \in 1..e.ndim |-> e.shape[k]], dbg, 0, {}, oob)

\* Variant of checkTensor without the comparison of the ranks.
checkTensorNoRankCheck(a, e, dbg, oob) ==
  IF toTypeToken(a.dtype) # toTypeToken(e.dtype)
    THEN [err |-> TypeMismatchError(dbg, kindToString(toTypeToken(e.dtype)),
                                    kindToString(toTypeToken(a.dtype))),
          reads |-> {}]
    ELSE ShapeLoop([k \in 1..a.ndim |-> a.shape[k]],
                   [k \in 1..e.ndim |-> e.shape[k]], dbg, 0, {}, oob)

\* ------------------------------------------------------ tc_executor.cc:46-71
checkTensor(a, e, dbg, oob) ==
  IF a.ndim # e.ndim
    THEN [err |-> RankMismatchError(dbg, e.ndim, a.ndim), reads |-> {}]
    ELSE IF toTypeToken(a.dtype) # toTypeToken(e.dtype)
      THEN [err |-> TypeMismatchError(dbg, kindToString(toTypeToken(e.dtype)),
                                      kindToString(toTypeToken(a.dtype))),
            reads |-> {}]
      ELSE ShapeLoop([k \in 1..a.ndim |-> a.shape[k]],
                     [k \in 1..e.ndim |-> e.shape[k]], dbg, 0, {}, oob)

\* ------------------------------------------------------ tc_executor.cc:82-85
RECURSIVE TensorLoop(_, _, _, _, _, _)
TensorLoop(dlTensors, tensorInfos, dbgInfo, i, rd, oob) ==
  IF i >= Len(tensorInfos)
    THEN [err |-> NoError, reads |-> rd]
    ELSE LET r == checkTensor(dlTensors[i + 1], tensorInfos[i + 1],
                              dbgInfo[i + 1], oob)
         IN IF r.err # NoError
              THEN [err |-> r.err, reads |-> rd \cup r.reads]
              ELSE TensorLoop(dlTensors, tensorInfos, dbgInfo, i + 1,
                              rd \cup r.reads, oob)

\* ------------------------------------------------------ tc_executor.cc:73-86
checkTensors(dlTensors, tensorInfos, dbgInfo, oob) ==
  IF Len(tensorInfos) # Len(dlTensors)
    THEN [err |-> ArityError(Len(tensorInfos), Len(dlTensors)), reads |-> {}]
    ELSE TensorLoop(dlTensors, tensorInfos, dbgInfo, 0, {}, oob)

\* ------------------------------------------------------ tc_executor.cc:88-98
checkConstTensors(dlTensors, tensorInfos, dbgInfo, oob) ==
  checkTensors([k \in 1..Len(dlTensors) |-> dlTensors[k]], tensorInfos,
               dbgInfo, oob)

\* ---------------------------------------------------- tc_executor.cc:109-133
\* The report, and the positions at which inputsInfo[i],
\* halideComponents.inputs[i] and params()[i] were indexed.
RECURSIVE InputsLoop(_, _, _, _)

\* Variant of InputsLoop without the comparison of the ranks.
RECURSIVE InputsLoopNoRankCheck(_, _, _, _)
InputsLoopNoRankCheck(inp, hc, i, idx) ==
  IF i >= Len(inp)
    THEN [err |-> NoError, indexed |-> idx]
    ELSE LET dltype == toScalarToken(inp[i + 1].dtype.code, inp[i + 1].dtype.bits)
             htype == toScalarToken(hc.inputs[i + 1].type.code,
                                    hc.inputs[i + 1].type.bits)
         IN IF dltype # htype
              THEN [err |-> TypeMismatchError(i, kindToString(htype),
                                              kindToString(dltype)),
                    indexed |-> idx \cup {i}]
              ELSE InputsLoopNoRankCheck(inp, hc, i + 1, idx \cup {i})

\* Variant of InputsLoop that compares the bit widths, not the canonical tokens.
RECURSIVE InputsLoopBitsOnly(_, _, _, _)
InputsLoopBitsOnly(inp, hc, i, idx) ==
  IF i >= Len(inp)
    THEN [err |-> NoError, indexed |-> idx]
    ELSE LET dltype == toScalarToken(inp[i + 1].dtype.code, inp[i + 1].dtype.bits)
             htype == toScalarToken(hc.inputs[i + 1].type.code,
                                    hc.inputs[i + 1].type.bits)
             edim == hc.inputs[i + 1].dimensions
             adim == inp[i + 1].ndim
         IN IF inp[i + 1].dtype.bits # hc.inputs[i + 1].type.bits
              THEN [err |-> TypeMismatchError(i, kindToString(htype),
                                              kindToString(dltype)),
                    indexed |-> idx \cup {i}]
              ELSE IF adim # edim
                THEN [err |-> RankMismatchError(i, edim, adim),
                      indexed |-> idx \cup {i}]
                ELSE InputsLoopBitsOnly(inp, hc, i + 1, idx \cup {i})

InputsLoop(inp, hc, i, idx) ==
  IF i >= Len(inp)
    THEN [err |-> NoError, indexed |-> idx]
    ELSE LET dltype == toScalarToken(inp[i + 1].dtype.code, inp[i + 1].dtype.bits)
             htype == toScalarToken(hc.inputs[i + 1].type.code,
                                    hc.inputs[i + 1].type.bits)
             edim == hc.inputs[i + 1].dimensions
             adim == inp[i + 1].ndim
         IN IF dltype # htype
              THEN [err |-> TypeMismatchError(i, kindToString(htype),
                                              kindToString(dltype)),
                    indexed |-> idx \cup {i}]
              ELSE IF adim # edim
                THEN [err |-> RankMismatchError(i, edim, adim),
                      indexed |-> idx \cup {i}]
                ELSE InputsLoop(inp, hc, i + 1, idx \cup {i})

\* Variant of checkInputsCompliant whose count report swaps the two counts.
checkInputsCompliantSwapped(inp, hc) ==
  IF Len(inp) # Len(hc.inputs)
    THEN [err |-> ArityError(Len(inp), Len(hc.inputs)), indexed |-> {}]
    ELSE InputsLoop(inp, hc, 0, {})

\* ---------------------------------------------------- tc_executor.cc:101-134
checkInputsCompliant(inp, hc) ==
  IF Len(inp) # Len(hc.inputs)
    THEN [err |-> ArityError(Len(hc.inputs), Len(inp)), indexed |-> {}]
    ELSE InputsLoop(inp, hc, 0, {})

\* ------------------------------------------------------------------- state
Init ==
  /\ pc = "idle"
  /\ text = <<>>
  /\ inputsInfo = <<>>
  /\ tcTree_ = NoTree
  /\ halideComponents_ = NoComponents
  /\ execInfo_ = EmptyExecInfo
  /\ executor = NoExecutor
  /\ stages = <<>>
  /\ indexed = {}
  /\ err = NoError
  /\ actual = <<>>
  /\ expected = <<>>
  /\ reads = {}

Throw(e) == pc' = "failed" /\ err' = e

\* TcExecutor(const std::string&, inputsInfo) is called (tc_executor.cc:137).
CallFromText ==
  /\ pc = "idle"
  /\ \E t \in Texts, inp \in SeqsUpTo(BaseTensors, MaxTensors) :
       /\ text' = t
       /\ inputsInfo' = inp
  /\ pc' = "parse"
  /\ UNCHANGED <<tcTree_, halideComponents_, execInfo_, executor, stages, indexed, err>>
  /\ UNCHANGED checkVars

\* TcExecutor(lang::TreeRef, inputsInfo) is called directly, and
\* tcTree_(tcDefinition) is initialised (tc_executor.cc:142-145).
CallFromTree ==
  /\ pc = "idle"
  /\ \E d \in Defs, inp \in SeqsUpTo(BaseTensors, MaxTensors) :
       /\ tcTree_' = d
       /\ inputsInfo' = inp
  /\ pc' = "name"
  /\ stages' = Append(stages, "accept")
  /\ UNCHANGED <<text, halideComponents_, execInfo_, executor, indexed, err>>
  /\ UNCHANGED checkVars

\* Variant of ParseOneFunction without the test for end of input.
ParseOneFunctionNoEofCheck ==
  /\ pc = "parse"
  /\ stages' = Append(stages, "parse")
  /\ LET r == parseFunction(text, 0)
     IN IF ~r.ok
          THEN Throw(SyntaxError(r.loc)) /\ UNCHANGED tcTree_
          ELSE pc' = "name" /\ tcTree_' = r.tree /\ UNCHANGED err
  /\ UNCHANGED <<text, inputsInfo, halideComponents_, execInfo_, executor, indexed>>
  /\ UNCHANGED checkVars

\* parseOneFunction (tc_executor.cc:29-37), then the delegation to the
\* constructor from a tree (tc_executor.cc:140, 145).
ParseOneFunction ==
  /\ pc = "parse"
  /\ stages' = Append(stages, "parse")
  /\ LET r == parseFunction(text, 0)
     IN IF ~r.ok
          THEN Throw(SyntaxError(r.loc)) /\ UNCHANGED tcTree_
          ELSE IF curKind(text, r.pos) # "TK_EOF"
            THEN Throw(SyntaxError(r.pos)) /\ UNCHANGED tcTree_
            ELSE pc' = "name" /\ tcTree_' = r.tree /\ UNCHANGED err
  /\ UNCHANGED <<text, inputsInfo, halideComponents_, execInfo_, executor, indexed>>
  /\ UNCHANGED checkVars

\* execInfo_.kernelName = lang::Def(tcTree_).name().name() (tc_executor.cc:147)
SetKernelName ==
  /\ pc = "name"
  /\ execInfo_' = [execInfo_ EXCEPT !.kernelName = tcTree_.name]
  /\ stages' = Append(stages, "name")
  /\ pc' = "translate"
  /\ UNCHANGED <<text, inputsInfo, tcTree_, halideComponents_, executor, indexed, err>>
  /\ UNCHANGED checkVars

\* halideComponents_ = tc2halide::translate(ctx_, tcTree_) (tc_executor.cc:148)
Translate ==
  /\ pc = "translate"
  /\ stages' = Append(stages, "translate")
  /\ IF tcTree_.lowerable
       THEN /\ halideComponents_' = translate(tcTree_)
            /\ pc' = "check"
            /\ UNCHANGED err
       ELSE Throw(TranslationError) /\ UNCHANGED halideComponents_
  /\ UNCHANGED <<text, inputsInfo, tcTree_, execInfo_, executor, indexed>>
  /\ UNCHANGED checkVars

\* Variant of CheckInputs that goes on to store the inputs after a report.
CheckInputsContinues ==
  /\ pc = "check"
  /\ stages' = Append(stages, "validate")
  /\ LET r == checkInputsCompliant(inputsInfo, halideComponents_)
     IN /\ indexed' = r.indexed
        /\ pc' = "store"
        /\ UNCHANGED err
  /\ UNCHANGED <<text, inputsInfo, tcTree_, halideComponents_, execInfo_, executor>>
  /\ UNCHANGED checkVars

\* checkInputsCompliant(inputsInfo, halideComponents_) (tc_executor.cc:149)
CheckInputs ==
  /\ pc = "check"
  /\ stages' = Append(stages, "validate")
  /\ LET r == checkInputsCompliant(inputsInfo, halideComponents_)
     IN /\ indexed' = r.indexed
        /\ IF r.err # NoError
             THEN Throw(r.err)
             ELSE pc' = "store" /\ UNCHANGED err
  /\ UNCHANGED <<text, inputsInfo, tcTree_, halideComponents_, execInfo_, executor>>
  /\ UNCHANGED checkVars

\* Variant of StoreInputs that leaves execInfo_.inputsInfo empty.
StoreInputsSkipped ==
  /\ pc = "store"
  /\ stages' = Append(stages, "storeInputs")
  /\ pc' = "infer"
  /\ UNCHANGED <<text, inputsInfo, tcTree_, halideComponents_, execInfo_, executor,
                 indexed, err>>
  /\ UNCHANGED checkVars

\* execInfo_.inputsInfo = dlutils::makeDLTensorVector(inputsInfo)
\* (tc_executor.cc:150)
StoreInputs ==
  /\ pc = "store"
  /\ execInfo_' = [execInfo_ EXCEPT !.inputsInfo = makeDLTensorVector(inputsInfo)]
  /\ stages' = Append(stages, "storeInputs")
  /\ pc' = "infer"
  /\ UNCHANGED <<text, inputsInfo, tcTree_, halideComponents_, executor, indexed, err>>
  /\ UNCHANGED checkVars

\* Variant of InferOutputs that hands the object to the caller although
\* inference failed.
InferOutputsKeepsObject ==
  /\ pc = "infer"
  /\ \/ /\ Throw(InferenceError)
        /\ stages' = Append(stages, "infer")
        /\ executor' = [tcTree_ |-> tcTree_,
                        halideComponents_ |-> halideComponents_,
                        execInfo_ |-> execInfo_]
        /\ UNCHANGED execInfo_
     \/ \E outs \in OutputLists :
          /\ execInfo_' = [execInfo_ EXCEPT !.outputsInfo = outs]
          /\ executor' = [tcTree_ |-> tcTree_,
                          halideComponents_ |-> halideComponents_,
                          execInfo_ |-> execInfo_']
          /\ stages' = stages \o <<"infer", "storeOutputs">>
          /\ pc' = "done"
          /\ UNCHANGED err
  /\ UNCHANGED <<text, inputsInfo, tcTree_, halideComponents_, indexed>>
  /\ UNCHANGED checkVars

\* execInfo_.outputsInfo = getHalidePencilState(inputsInfo).outputsDLT, and
\* the constructor returns (tc_executor.cc:151-152, 155-167). toPencil either
\* derives the output descriptors or fails.
InferOutputs ==
  /\ pc = "infer"
  /\ \/ /\ Throw(InferenceError)
        /\ stages' = Append(stages, "infer")
        /\ UNCHANGED <<execInfo_, executor>>
     \/ \E outs \in OutputLists :
          /\ execInfo_' = [execInfo_ EXCEPT !.outputsInfo = outs]
          /\ executor' = [tcTree_ |-> tcTree_,
                          halideComponents_ |-> halideComponents_,
                          execInfo_ |-> execInfo_']
          /\ stages' = stages \o <<"infer", "storeOutputs">>
          /\ pc' = "done"
          /\ UNCHANGED err
  /\ UNCHANGED <<text, inputsInfo, tcTree_, halideComponents_, indexed>>
  /\ UNCHANGED checkVars

\* checkSizesAndStridesAreCompliant on two lists of tensors
\* (tc_executor.cc:88-98); dbgInfo[i] is parameter i.
CheckSizesAndStrides ==
  /\ pc = "idle"
  /\ \E a \in SeqsUpTo(DLTensors, MaxTensors),
        e \in SeqsUpTo(ExpectedTensors, MaxTensors),
        oob \in {0, 4} :
       LET r == checkConstTensors(a, e, [k \in 1..Len(e) |-> k - 1], oob)
       IN /\ actual' = a
          /\ expected' = e
          /\ err' = r.err
          /\ reads' = r.reads
  /\ pc' = "checked"
  /\ UNCHANGED ctorVars

Next ==
  \/ CallFromText
  \/ CallFromTree
  \/ ParseOneFunction
  \/ SetKernelName
  \/ Translate
  \/ CheckInputs
  \/ StoreInputs
  \/ InferOutputs
  \/ CheckSizesAndStrides

Spec == Init /\ [][Next]_vars

\* ================================================================ properties
Range(f) == {f[k] : k \in DOMAIN f}
IsPrefix(s, t) == Len(s) <= Len(t) /\ \A k \in 1..Len(s) : s[k] = t[k]
Min(S) == CHOOSE x \in S : \A y \in S : x <= y

TextOrder ==
  <<"parse", "name", "translate", "validate", "storeInputs", "infer", "storeOutputs">>
TreeOrder ==
  <<"accept", "name", "translate", "validate", "storeInputs", "infer", "storeOutputs">>

\* The constructor has ended, by returning or by throwing.
Ended == pc \in {"done", "failed"}
\* The construction attempt got a definition the translator lowered.
ValidDef == "translate" \in Range(stages) /\ tcTree_.lowerable
\* The declared parameters of the definition under construction.
declared == tcTree_.params

\* The descriptor d has the declared rank / the declared canonical dtype of p.
SameRank(d, p) == d.ndim = p.rank
SameType(d, p) ==
  toScalarToken(d.dtype.code, d.dtype.bits) = toScalarToken(p.type.code, p.type.bits)
Complies(d, p) == SameRank(d, p) /\ SameType(d, p)
Matches(inp, ps) ==
  /\ Len(inp) = Len(ps)
  /\ \A k \in 1..Len(inp) : Complies(inp[k], ps[k])
\* Positions 0 .. i-1 of the supplied list comply with the declaration.
CompliesBefore(i) == \A k \in 1..i : Complies(inputsInfo[k], declared[k])

TypeName(t) == kindToString(toScalarToken(t.code, t.bits))

\* Two tensors agree in rank, canonical dtype, shape.
RankEq(a, e) == a.ndim = e.ndim
TypeEq(a, e) == toTypeToken(a.dtype) = toTypeToken(e.dtype)
DiffDims(a, e) == {d \in 0..(a.ndim - 1) : a.shape[d + 1] # e.shape[d + 1]}
FullyEq(a, e) == RankEq(a, e) /\ TypeEq(a, e) /\ DiffDims(a, e) = {}

\* ------------------------------------------------------------------- C1
\* C1: construction is all-or-nothing. Whenever the caller holds an Executor,
\* the constructor ran every stage to the end without error, and kernelName,
\* inputsInfo and outputsInfo are populated; whenever a stage failed, the
\* error is surfaced and the caller holds no Executor.
C1_AllOrNothing ==
  /\ executor # NoExecutor =>
       /\ pc = "done"
       /\ err = NoError
       /\ stages \in {TextOrder, TreeOrder}
       /\ executor.execInfo_.kernelName = tcTree_.name
       /\ Len(executor.execInfo_.inputsInfo) = Len(declared)
       /\ executor.execInfo_.inputsInfo = inputsInfo
       /\ executor.execInfo_.outputsInfo \in OutputLists
  /\ pc = "done" => executor # NoExecutor
  /\ pc = "failed" => err # NoError /\ executor = NoExecutor
  /\ err # NoError /\ pc # "checked" => pc = "failed"

\* A construction that failed in output inference, after inputsInfo was stored.
C1_Witness ==
  /\ pc = "failed"
  /\ err = InferenceError
  /\ Len(execInfo_.inputsInfo) = MaxTensors
  /\ executor = NoExecutor

BadA == {k \in 1..Len(inputsInfo) : ~Complies(inputsInfo[k], declared[k])}
BadB == {k \in 1..Len(actual) : ~FullyEq(actual[k], expected[k])}

RankReportA(k) ==
  RankMismatchError(k - 1, declared[k].rank, inputsInfo[k].ndim)
TypeReportA(k) ==
  TypeMismatchError(k - 1, TypeName(declared[k].type), TypeName(inputsInfo[k].dtype))
\* The report for position k of mode A, rank before dtype / dtype before rank.
ReportRankFirstA(k) ==
  IF ~SameRank(inputsInfo[k], declared[k]) THEN RankReportA(k) ELSE TypeReportA(k)
ReportTypeFirstA(k) ==
  IF ~SameType(inputsInfo[k], declared[k]) THEN TypeReportA(k) ELSE RankReportA(k)

\* The report for tensor k of mode B: rank, then dtype, then the lowest
\* differing dimension.
ReportB(k) ==
  LET a == actual[k]
      e == expected[k]
  IN IF ~RankEq(a, e) THEN RankMismatchError(k - 1, e.ndim, a.ndim)
     ELSE IF ~TypeEq(a, e)
       THEN TypeMismatchError(k - 1, TypeName(e.dtype), TypeName(a.dtype))
       ELSE LET d == Min(DiffDims(a, e))
            IN ShapeMismatchError(k - 1, d, e.shape[d + 1], a.shape[d + 1])

ModeBFirstViolation ==
  pc = "checked" /\ Len(actual) = Len(expected) =>
    IF BadB = {} THEN err = NoError ELSE err = ReportB(Min(BadB))

\* C3 as stated: in both modes the one report is that of the lowest violating
\* position, and within it rank is checked before dtype before shape.
C3_Original ==
  /\ ModeBFirstViolation
  /\ Ended /\ ValidDef /\ Len(inputsInfo) = Len(declared) /\ BadA # {} =>
       pc = "failed" /\ err = ReportRankFirstA(Min(BadA))

\* C3 (amended): the validator reports one error, that of the lowest violating
\* position; within a tensor mode B checks rank, then dtype, then the shape
\* dimensions in ascending order, and mode A checks dtype, then rank.
C3_FirstViolation ==
  /\ ModeBFirstViolation
  /\ Ended /\ ValidDef /\ Len(inputsInfo) = Len(declared) /\ BadA # {} =>
       pc = "failed" /\ err = ReportTypeFirstA(Min(BadA))

\* Mode A, both positions in violation, the first in rank and in dtype.
C3_Witness ==
  /\ pc = "failed"
  /\ ValidDef
  /\ Len(inputsInfo) = MaxTensors
  /\ Len(declared) = MaxTensors
  /\ BadA = 1..MaxTensors
  /\ ~SameRank(inputsInfo[1], declared[1])
  /\ ~SameType(inputsInfo[1], declared[1])
  /\ err.kind = "TypeMismatchError"
  /\ err.pos = 0

\* ------------------------------------------------------------------- C4
\* C4 as stated, read for lists of the declared length: a rank that differs at
\* position i always gives RankMismatchError citing i, the declared rank and
\* the actual rank.
C4_Original ==
  Ended /\ ValidDef /\ Len(inputsInfo) = Len(declared) =>
    \A k \in 1..Len(inputsInfo) :
      ~SameRank(inputsInfo[k], declared[k]) =>
        pc = "failed" /\ err = RankReportA(k)

\* C4 (amended): when the counts match, every position before i complies and
\* the canonical dtype at i matches, a rank that differs at position i gives
\* RankMismatchError citing i, the declared rank and the actual rank, whatever
\* the later positions hold.
C4_RankMismatch ==
  Ended /\ ValidDef /\ Len(inputsInfo) = Len(declared) =>
    \A k \in 1..Len(inputsInfo) :
      /\ CompliesBefore(k - 1)
      /\ SameType(inputsInfo[k], declared[k])
      /\ ~SameRank(inputsInfo[k], declared[k])
      => pc = "failed" /\ err = RankReportA(k)

\* Only the rank of the last position differs.
C4_Witness ==
  /\ pc = "failed"
  /\ ValidDef
  /\ Len(inputsInfo) = MaxTensors
  /\ Len(declared) = MaxTensors
  /\ BadA = {MaxTensors}
  /\ SameType(inputsInfo[MaxTensors], declared[MaxTensors])
  /\ err = RankReportA(MaxTensors)

\* ------------------------------------------------------------------- C5
\* C5 as stated, read for lists of the declared length: a canonical dtype that
\* differs at position i always gives TypeMismatchError citing i and the
\* declared and actual type names.
C5_Original ==
  Ended /\ ValidDef /\ Len(inputsInfo) = Len(declared) =>
    \A k \in 1..Len(inputsInfo) :
      ~SameType(inputsInfo[k], declared[k]) =>
        pc = "failed" /\ err = TypeReportA(k)

\* C5 (amended): when the counts match and every position before i complies,
\* a canonical dtype that differs at position i gives TypeMismatchError citing
\* i and the declared and actual type names, also for types of equal bit
\* width and different class, whatever the rank at i and the later positions.
C5_TypeMismatch ==
  Ended /\ ValidDef /\ Len(inputsInfo) = Len(declared) =>
    \A k \in 1..Len(inputsInfo) :
      CompliesBefore(k - 1) /\ ~SameType(inputsInfo[k], declared[k]) =>
        pc = "failed" /\ err = TypeReportA(k)

\* A 32-bit signed integer tensor of the declared rank where a 32-bit float
\* is declared, at the last position.
C5_Witness ==
  /\ pc = "failed"
  /\ ValidDef
  /\ Len(inputsInfo) = MaxTensors
  /\ Len(declared) = MaxTensors
  /\ BadA = {MaxTensors}
  /\ declared[MaxTensors].type = Float32
  /\ inputsInfo[MaxTensors].dtype = Int32
  /\ SameRank(inputsInfo[MaxTensors], declared[MaxTensors])
  /\ err = TypeMismatchError(MaxTensors - 1, "float", "int32")

\* ------------------------------------------------------------------- C6
\* C6: a supplied list whose length differs from the declared parameter count
\* gives ArityError citing the declared and the actual count, whatever the
\* descriptors hold; no position is indexed then, and no position beyond
\* either list is ever indexed.
C6_ArityFirst ==
  /\ Ended /\ ValidDef /\ Len(inputsInfo) # Len(declared) =>
       /\ pc = "failed"
       /\ err = ArityError(Len(declared), Len(inputsInfo))
       /\ indexed = {}
  /\ \A i \in indexed : i < Len(inputsInfo) /\ i < Len(halideComponents_.inputs)

\* More descriptors than parameters, the first of them of the wrong dtype.
C6_Witness ==
  /\ pc = "failed"
  /\ ValidDef
  /\ Len(declared) = 1
  /\ Len(inputsInfo) = MaxTensors
  /\ ~SameType(inputsInfo[1], declared[1])
  /\ err = ArityError(1, MaxTensors)

\* ------------------------------------------------------------------- C7
\* C7: when an item remains after one function was parsed, construction from
\* text fails with SyntaxError at that item (item 1, the first of the second
\* definition), whatever the descriptors are; nothing is translated,
\* validated, stored or inferred.
C7_OneDefinition ==
  Len(text) > 1 /\ text[1] # Junk /\ pc # "parse" =>
    /\ pc = "failed"
    /\ err = SyntaxError(1)
    /\ stages = <<"parse">>
    /\ tcTree_ = NoTree
    /\ halideComponents_ = NoComponents
    /\ execInfo_ = EmptyExecInfo
    /\ executor = NoExecutor

\* Two definitions in one text, with descriptors that fit the first.
C7_Witness ==
  /\ pc = "failed"
  /\ Len(text) = 2
  /\ text[1] \in Defs
  /\ text[1].lowerable
  /\ text[2] = TrailingDef
  /\ Matches(inputsInfo, text[1].params)
  /\ Len(inputsInfo) = MaxTensors
  /\ err = SyntaxError(1)

\* ------------------------------------------------------------------- C8
\* C8: mode B on two lists of equal length: when every tensor before t
\* matches fully and tensor t matches in rank and canonical dtype but not in
\* shape, the report is ShapeMismatchError citing t, the lowest differing
\* dimension d, the expected size and the actual size at d.
C8_ShapeReport ==
  pc = "checked" /\ Len(actual) = Len(expected) =>
    \A t \in 1..Len(actual) :
      /\ \A j \in 1..(t - 1) : FullyEq(actual[j], expected[j])
      /\ RankEq(actual[t], expected[t])
      /\ TypeEq(actual[t], expected[t])
      /\ DiffDims(actual[t], expected[t]) # {}
      => err = ShapeMismatchError(
                 t - 1, Min(DiffDims(actual[t], expected[t])),
                 expected[t].shape[Min(DiffDims(actual[t], expected[t])) + 1],
                 actual[t].shape[Min(DiffDims(actual[t], expected[t])) + 1])

\* Expected [4, 8] against actual [4, 9].
C8_Witness ==
  /\ pc = "checked"
  /\ Len(actual) >= 1
  /\ Len(actual) = Len(expected)
  /\ expected[1].shape = <<4, 8>>
  /\ actual[1].shape = <<4, 9>>
  /\ err = ShapeMismatchError(0, 1, 8, 9)

\* ------------------------------------------------------------------- C9
\* The stage at which each kind of error is thrown.
FailedStage ==
  CASE err.kind = "SyntaxError" -> "parse"
    [] err.kind = "TranslationError" -> "translate"
    [] err.kind \in {"ArityError", "TypeMismatchError", "RankMismatchError"} -> "validate"
    [] err.kind = "InferenceError" -> "infer"
    [] OTHER -> "none"

\* C9: the stages of a construction run in order, each at most once; inputsInfo
\* is stored only after mode A validation succeeded; inference runs and
\* outputsInfo is stored only after inputsInfo was validated and stored; the
\* stage that failed is the last one run.
C9_StagesForward ==
  pc # "checked" =>
    /\ IsPrefix(stages, TextOrder) \/ IsPrefix(stages, TreeOrder)
    /\ "storeInputs" \in Range(stages) => Matches(inputsInfo, declared)
    /\ execInfo_.inputsInfo # <<>> => "storeInputs" \in Range(stages)
    /\ "infer" \in Range(stages) => execInfo_.inputsInfo = inputsInfo
    /\ execInfo_.outputsInfo # <<>> => "storeOutputs" \in Range(stages)
    /\ pc = "failed" => stages # <<>> /\ stages[Len(stages)] = FailedStage
    /\ pc = "done" => stages \in {TextOrder, TreeOrder}

\* A construction from text that ran every stage.
C9_Witness ==
  /\ pc = "done"
  /\ stages = TextOrder
  /\ Len(execInfo_.inputsInfo) = MaxTensors

\* ------------------------------------------------------------------ C10
\* C10: every index at which the shape loop reads the expected shape is
\* below the expected rank, the ranks of that tensor pair being equal; the
\* first tensor whose rank differs gives RankMismatchError and none of its
\* shape elements is read.
C10_ReadsInBounds ==
  pc = "checked" =>
    /\ \A r \in reads :
         /\ r[1] < Len(expected)
         /\ r[2] < expected[r[1] + 1].ndim
         /\ actual[r[1] + 1].ndim = expected[r[1] + 1].ndim
    /\ Len(actual) = Len(expected) =>
         \A t \in 1..Len(actual) :
           /\ \A j \in 1..(t - 1) : FullyEq(actual[j], expected[j])
           /\ ~RankEq(actual[t], expected[t])
           => /\ err.kind = "RankMismatchError"
              /\ err.pos = t - 1
              /\ \A r \in reads : r[1] # t - 1

\* Every dimension of the last tensor was compared.
C10_Witness ==
  /\ pc = "checked"
  /\ Len(actual) = MaxTensors
  /\ <<MaxTensors - 1, MaxRank - 1>> \in reads

====
